---------------------------- MODULE Spec2Model ----------------------------
(***************************************************************************)
(* Model of dissect/target/plugins/os/windows/searchindex.py: the SQLite   *)
(* path of the Windows search index plugin.                                *)
(*                                                                         *)
(*   _get_sqlite_records   loads the gatherer table, the property-store    *)
(*                         metadata and the property-store base rows,      *)
(*                         replays the WAL checkpoints and joins identity  *)
(*                         facts with every property version               *)
(*   get_rows_from_checkpoint   collects the cells of a checkpoint         *)
(*   searchindex           turns every joined row into an output record    *)
(*                                                                         *)
(* The interactive debugging probes of the source (print / pprint / input  *)
(* at lines 187-188, 217-218, 224-225 and 251-252) write to the terminal   *)
(* only and are not part of the modelled state.                            *)
(*                                                                         *)
(* Python values are modelled as records [t, s, b]: t the type, s the      *)
(* text of a str or bool, b the bytes of a bytes value (or the number of   *)
(* an int / datetime).  A dict is a function from its keys to such values. *)
(***************************************************************************)
EXTENDS Integers, Sequences, FiniteSets, TLC

(***************************************************************************)
(* Bounds of the model.                                                    *)
(***************************************************************************)
MaxWorkId == 1
MaxBaseRows == 2
MaxCheckpoints == 2
MaxFrames == 2
MaxCells == 1
MaxCheckpointIndex == 2
MaxEmitWorkId == 3

(***************************************************************************)
(* Program constants.                                                      *)
(***************************************************************************)
\* get_rows_from_checkpoint: if cell.size > 255
BlobSizeThreshold == 255
\* get_rows_from_checkpoint: if frame.page.header.flags != 0xA
LeafIndexPage == 10

WIN_DATETIME_FIELDS ==
    { "LastModified", "System_Search_GatherTime", "System_DateModified",
      "System_DateCreated", "System_ActivityHistory_EndTime",
      "System_ActivityHistory_StartTime" }

PROPSTORE_INCLUDE_COLUMNS ==
    { "WorkID", "System_Size", "System_DateModified", "System_DateCreated",
      "System_FileOwner", "System_ItemPathDisplay", "System_ItemType",
      "System_FileAttributes", "System_Search_AutoSummary",
      "System_Activity_ContentUri", "System_Activity_Description",
      "System_Activity_DisplayText", "System_ActivityHistory_StartTime",
      "System_ActivityHistory_EndTime", "System_ActivityHistory_AppId" }

(***************************************************************************)
(* Python values.                                                          *)
(***************************************************************************)
None == [t |-> "None", s |-> "", b |-> <<>>]
Str(x) == [t |-> "str", s |-> x, b |-> <<>>]
Bytes(x) == [t |-> "bytes", s |-> "", b |-> x]
IntVal(n) == [t |-> "int", s |-> "", b |-> <<n>>]
Bool(x) == [t |-> "bool", s |-> IF x THEN "True" ELSE "False", b |-> <<>>]
\* a datetime, as the number of microseconds since 1601-01-01
Datetime(us) == [t |-> "datetime", s |-> "", b |-> <<us>>]
\* the outcome of a call that raised ValueError
ValueError == [t |-> "raise", s |-> "ValueError", b |-> <<>>]

EmptyDict == <<>>
\* d.get(k)
Get(d, k) == IF k \in DOMAIN d THEN d[k] ELSE None
\* a | b
Merge(a, b) == [k \in DOMAIN a \cup DOMAIN b |-> IF k \in DOMAIN b THEN b[k] ELSE a[k]]
\* d[k] = v on a copy of d
Put(d, k, v) == [x \in DOMAIN d \cup {k} |-> IF x = k THEN v ELSE d[x]]
\* max(d.keys()) of a non-empty dict
MaxKey(d) == CHOOSE k \in DOMAIN d : \A j \in DOMAIN d : j <= k
\* seq[-1]
Last(seq) == seq[Len(seq)]

\* int.from_bytes(value, "little")
RECURSIVE FromBytesLittle(_)
FromBytesLittle(bytes) ==
    IF bytes = <<>> THEN 0
    ELSE Head(bytes) + 256 * FromBytesLittle(Tail(bytes))

\* The largest tick count wintimestamp converts (a scaled-down datetime.max).
MaxFileTime == 255
\* File-time ticks are 100 ns, a datetime counts microseconds.
TicksPerMicrosecond == 10

\* dissect.util.ts.wintimestamp
wintimestamp(ts) ==
    IF ts > MaxFileTime THEN ValueError
    ELSE Datetime(ts \div TicksPerMicrosecond)

(***************************************************************************)
(* The inputs: what the database reader hands to the plugin.               *)
(***************************************************************************)
WorkIds == 0 .. MaxWorkId
\* checkpoint.index: the base versions carry 0 (line 214) and the checkpoints
\* of the WAL a positive index; the reader may hand them over in any order
CheckpointIndices == 1 .. MaxCheckpointIndex

\* SystemIndex_1_PropertyStore_Metadata
MetadataTable ==
    << [Id |-> 1, PropertyId |-> "System.DateCreated"],
       [Id |-> 2, PropertyId |-> "System.ItemType"],
       [Id |-> 3, PropertyId |-> "System.Kind"] >>

\* row["PropertyId"].replace(".", "_") on the property ids of MetadataTable
replace_dots(property_id) ==
    CASE property_id = "System.DateCreated" -> "System_DateCreated"
      [] property_id = "System.ItemType" -> "System_ItemType"
      [] property_id = "System.Kind" -> "System_Kind"
      [] OTHER -> property_id

ColumnIds == { MetadataTable[n].Id : n \in DOMAIN MetadataTable }
PropertyIdOf(column_id) ==
    MetadataTable[CHOOSE n \in DOMAIN MetadataTable : MetadataTable[n].Id = column_id].PropertyId

\* Raw values of a property-store row or of a WAL cell, per column.
RawValues(column_id) ==
    CASE PropertyIdOf(column_id) = "System.DateCreated" ->
             { Bytes(<<10>>), Bytes(<<20>>), Bytes(<<0, 1>>) }
      [] PropertyIdOf(column_id) = "System.ItemType" ->
             { Str("ActivityHistoryItem") }
      [] OTHER -> { Str(".txt") }

\* SystemIndex_1_PropertyStore
PropstoreRows ==
    UNION { { [WorkId |-> w, ColumnId |-> c, Value |-> v] : v \in RawValues(c) } :
            w \in WorkIds, c \in ColumnIds }

\* SystemIndex_Gthr
GthrRows ==
    { [DocumentID |-> d, FileName |-> Str("file"), LastModified |-> lm, SDID |-> IntVal(1)] :
      d \in WorkIds, lm \in { Bytes(<<10>>), Bytes(<<0, 1>>) } }

\* cell.values of a WAL cell: [workid, columnid, value]
CellValues ==
    UNION { { <<w, c, v>> : v \in RawValues(c) } : w \in WorkIds, c \in ColumnIds }

\* The cells of an index leaf page: property-store cells, a large blob, and a
\* cell whose payload the reader cannot give (it raises NoCellData).
Cells ==
    { [size |-> 12, values |-> v, nodata |-> FALSE] : v \in CellValues }
    \cup { [size |-> 256, values |-> <<0, 3, Bytes(<<1>>)>>, nodata |-> FALSE] }
    \cup { [size |-> 12, values |-> <<>>, nodata |-> TRUE] }

RECURSIVE SeqsUpTo(_, _)
SeqsUpTo(S, n) ==
    IF n = 0 THEN { <<>> }
    ELSE LET shorter == SeqsUpTo(S, n - 1)
         IN shorter \cup { Append(q, x) : q \in { r \in shorter : Len(r) = n - 1 }, x \in S }

\* The frames of a checkpoint: a page of a type the reader refuses
\* (InvalidPageType), a table leaf page (flags 0xD), an index leaf with cells.
Frames ==
    { [valid |-> FALSE, flags |-> 0, cells |-> <<>>] }
    \cup { [valid |-> TRUE, flags |-> 13, cells |-> <<>>] }
    \cup { [valid |-> TRUE, flags |-> LeafIndexPage, cells |-> cs] : cs \in SeqsUpTo(Cells, MaxCells) }

(***************************************************************************)
(* The steps of _get_sqlite_records as operators on its dicts.             *)
(***************************************************************************)

\* lines 191-196: the metadata dict, column id -> column name
RECURSIVE BuildMetadata(_, _)
BuildMetadata(table, metadata) ==
    IF table = <<>> THEN metadata
    ELSE LET row == Head(table)
             column_name == replace_dots(row.PropertyId)
         IN BuildMetadata(Tail(table),
                          IF column_name \in PROPSTORE_INCLUDE_COLUMNS
                          THEN Put(metadata, row.Id, column_name)
                          ELSE metadata)

\* lines 205-212 and 230-237: the value stored for a column
ConvertValue(column_name, raw) ==
    IF column_name \in WIN_DATETIME_FIELDS
    THEN IF raw # None
         THEN LET value == wintimestamp(FromBytesLittle(raw.b))
              IN IF value = ValueError THEN None ELSE value
         ELSE raw
    ELSE raw

\* lines 180-186: the identity facts of a gatherer row; ValueError when the
\* time stamp does not convert (the call at line 181 is not guarded)
GthrRecord(row) ==
    LET last_modified == IF row.LastModified # None
                         THEN wintimestamp(FromBytesLittle(row.LastModified.b))
                         ELSE None
    IN IF last_modified = ValueError THEN ValueError
       ELSE [k \in {"FileName", "LastModified", "SDID"} |->
                CASE k = "FileName" -> row.FileName
                  [] k = "LastModified" -> last_modified
                  [] OTHER -> row.SDID]

\* line 214: the first version of a work id
NewVersion(column_name, value, index) ==
    [k \in {column_name, "checkpointindex"} |->
        IF k = "checkpointindex" THEN IntVal(index) ELSE value]

CheckpointIndexOf(version) == version["checkpointindex"].b[1]

\* ApplyBaseRow with a slip: a further row of a known work id is appended as
\* a version of its own instead of being written into the first one
ApplyBaseRow_AppendsVersion(records, metadata, row) ==
    IF row.ColumnId \notin DOMAIN metadata THEN records
    ELSE LET column_name == metadata[row.ColumnId]
             value == ConvertValue(column_name, row.Value)
         IN IF row.WorkId \notin DOMAIN records
            THEN Put(records, row.WorkId, << NewVersion(column_name, value, 0) >>)
            ELSE Put(records, row.WorkId,
                     Append(records[row.WorkId], NewVersion(column_name, value, 0)))

\* lines 202-216: one row of the property store's base table
ApplyBaseRow(records, metadata, row) ==
    IF row.ColumnId \notin DOMAIN metadata THEN records
    ELSE LET column_name == metadata[row.ColumnId]
             value == ConvertValue(column_name, row.Value)
         IN IF row.WorkId \notin DOMAIN records
            THEN Put(records, row.WorkId, << NewVersion(column_name, value, 0) >>)
            ELSE Put(records, row.WorkId,
                     [records[row.WorkId] EXCEPT ![1] = Put(@, column_name, value)])

\* ApplyChange with a slip: the test of line 242 is missing, so a change that
\* writes the value the field already has makes a version too
ApplyChange_NoSuppression(records, metadata, index, row) ==
    IF row[2] \notin DOMAIN metadata THEN records
    ELSE LET w == row[1]
             column_name == metadata[row[2]]
             value == ConvertValue(column_name, row[3])
         IN IF w \notin DOMAIN records
            THEN Put(records, w, << NewVersion(column_name, value, index) >>)
            ELSE LET versions == records[w]
                     latest == Last(versions)
                 IN IF CheckpointIndexOf(latest) < index
                    THEN Put(records, w,
                             Append(versions,
                                    Put(Put(latest, "checkpointindex", IntVal(index)),
                                        column_name, value)))
                    ELSE Put(records, w,
                             [versions EXCEPT ![Len(versions)] = Put(@, column_name, value)])

\* ApplyChange with a slip: line 241 compares with <= instead of <, so a
\* second change of the same checkpoint clones the version again
ApplyChange_ClonesAtSameIndex(records, metadata, index, row) ==
    IF row[2] \notin DOMAIN metadata THEN records
    ELSE LET w == row[1]
             column_name == metadata[row[2]]
             value == ConvertValue(column_name, row[3])
         IN IF w \notin DOMAIN records
            THEN Put(records, w, << NewVersion(column_name, value, index) >>)
            ELSE LET versions == records[w]
                     latest == Last(versions)
                 IN IF CheckpointIndexOf(latest) <= index
                    THEN IF Get(latest, column_name) = value
                         THEN records
                         ELSE Put(records, w,
                                  Append(versions,
                                         Put(Put(latest, "checkpointindex", IntVal(index)),
                                             column_name, value)))
                    ELSE Put(records, w,
                             [versions EXCEPT ![Len(versions)] = Put(@, column_name, value)])

\* ApplyChange with a slip: the test of line 228 is missing and a column the
\* metadata does not know is stored under its number's own name
ApplyChange_KeepsUnknownColumn(records, metadata, index, row) ==
    LET w == row[1]
        column_name == IF row[2] \in DOMAIN metadata THEN metadata[row[2]] ELSE "Column"
        value == ConvertValue(column_name, row[3])
    IN IF w \notin DOMAIN records
       THEN Put(records, w, << NewVersion(column_name, value, index) >>)
       ELSE LET versions == records[w]
                latest == Last(versions)
            IN IF CheckpointIndexOf(latest) < index
               THEN IF Get(latest, column_name) = value
                    THEN records
                    ELSE Put(records, w,
                             Append(versions,
                                    Put(Put(latest, "checkpointindex", IntVal(index)),
                                        column_name, value)))
               ELSE Put(records, w,
                        [versions EXCEPT ![Len(versions)] = Put(@, column_name, value)])

\* ApplyChange with the new version aliasing the latest one (no .copy() at
\* line 245): the write to the new version also lands in the cloned one
ApplyChange_AliasesLatest(records, metadata, index, row) ==
    IF row[2] \notin DOMAIN metadata THEN records
    ELSE LET w == row[1]
             column_name == metadata[row[2]]
             value == ConvertValue(column_name, row[3])
         IN IF w \notin DOMAIN records
            THEN Put(records, w, << NewVersion(column_name, value, index) >>)
            ELSE LET versions == records[w]
                     latest == Last(versions)
                     new_dict == Put(Put(latest, "checkpointindex", IntVal(index)),
                                     column_name, value)
                 IN IF CheckpointIndexOf(latest) < index
                    THEN IF Get(latest, column_name) = value
                         THEN records
                         ELSE Put(records, w,
                                  Append([versions EXCEPT ![Len(versions)] = new_dict],
                                         new_dict))
                    ELSE Put(records, w,
                             [versions EXCEPT ![Len(versions)] = Put(@, column_name, value)])

\* ApplyChange with the clone keeping the index of the version it was copied
\* from (line 246 left out)
ApplyChange_KeepsOldIndex(records, metadata, index, row) ==
    IF row[2] \notin DOMAIN metadata THEN records
    ELSE LET w == row[1]
             column_name == metadata[row[2]]
             value == ConvertValue(column_name, row[3])
         IN IF w \notin DOMAIN records
            THEN Put(records, w, << NewVersion(column_name, value, index) >>)
            ELSE LET versions == records[w]
                     latest == Last(versions)
                 IN IF CheckpointIndexOf(latest) < index
                    THEN IF Get(latest, column_name) = value
                         THEN records
                         ELSE Put(records, w,
                                  Append(versions, Put(latest, column_name, value)))
                    ELSE Put(records, w,
                             [versions EXCEPT ![Len(versions)] = Put(@, column_name, value)])

\* ApplyChange with the first version of a new work id assigned to a fresh
\* dict (propstore_records = {work_id: [...]} at line 240)
ApplyChange_ResetsDict(records, metadata, index, row) ==
    IF row[2] \notin DOMAIN metadata THEN records
    ELSE LET w == row[1]
             column_name == metadata[row[2]]
             value == ConvertValue(column_name, row[3])
         IN IF w \notin DOMAIN records
            THEN Put(EmptyDict, w, << NewVersion(column_name, value, index) >>)
            ELSE LET versions == records[w]
                     latest == Last(versions)
                 IN IF CheckpointIndexOf(latest) < index
                    THEN IF Get(latest, column_name) = value
                         THEN records
                         ELSE Put(records, w,
                                  Append(versions,
                                         Put(Put(latest, "checkpointindex", IntVal(index)),
                                             column_name, value)))
                    ELSE Put(records, w,
                             [versions EXCEPT ![Len(versions)] = Put(@, column_name, value)])

\* lines 227-250: one change tuple [workid, columnid, value] of a checkpoint
ApplyChange(records, metadata, index, row) ==
    IF row[2] \notin DOMAIN metadata THEN records
    ELSE LET w == row[1]
             column_name == metadata[row[2]]
             value == ConvertValue(column_name, row[3])
         IN IF w \notin DOMAIN records
            THEN Put(records, w, << NewVersion(column_name, value, index) >>)
            ELSE LET versions == records[w]
                     latest == Last(versions)
                 IN IF CheckpointIndexOf(latest) < index
                    THEN IF Get(latest, column_name) = value
                         THEN records
                         ELSE Put(records, w,
                                  Append(versions,
                                         Put(Put(latest, "checkpointindex", IntVal(index)),
                                             column_name, value)))
                    ELSE Put(records, w,
                             [versions EXCEPT ![Len(versions)] = Put(@, column_name, value)])

\* lines 420-423: the cells of one index leaf page, appended to rows; the
\* result says how the loop ended
RECURSIVE CollectCells(_, _)
CollectCells(rows, cells) ==
    IF cells = <<>> THEN [how |-> "next", rows |-> rows]
    ELSE LET cell == Head(cells)
         IN IF cell.nodata THEN [how |-> "raise", rows |-> rows]
            ELSE IF cell.size > BlobSizeThreshold THEN [how |-> "return", rows |-> <<>>]
            ELSE CollectCells(Append(rows, cell.values), Tail(cells))

\* lines 417-425: one frame of a checkpoint
CollectFrame(rows, frame) ==
    IF ~frame.valid THEN [how |-> "next", rows |-> rows]
    ELSE IF frame.flags # LeafIndexPage THEN [how |-> "next", rows |-> rows]
    ELSE CollectCells(rows, frame.cells)

\* EmitWorkId with the flag set on the first row of the list (rows[0] for
\* rows[-1] at line 306)
EmitWorkId_FlagsFirstRow(rows, gthr, records, iterator) ==
    LET row0 == [k \in {"WorkID"} |-> IntVal(iterator)]
        row == IF iterator \in DOMAIN gthr THEN Merge(row0, gthr[iterator]) ELSE row0
    IN IF iterator \in DOMAIN records
       THEN LET versions == records[iterator]
                added == [n \in 1 .. Len(versions) |->
                             Merge(Merge(row, versions[n]),
                                   [k \in {"latest"} |-> Bool(FALSE)])]
                all == rows \o added
            IN [all EXCEPT ![1] = Put(@, "latest", Bool(TRUE))]
       ELSE IF Cardinality(DOMAIN row) > 1 THEN Append(rows, row)
       ELSE rows

\* lines 300-308: the rows of one work id, appended to rows
EmitWorkId(rows, gthr, records, iterator) ==
    LET row0 == [k \in {"WorkID"} |-> IntVal(iterator)]
        row == IF iterator \in DOMAIN gthr THEN Merge(row0, gthr[iterator]) ELSE row0
    IN IF iterator \in DOMAIN records
       THEN LET versions == records[iterator]
                added == [n \in 1 .. Len(versions) |->
                             Merge(Merge(row, versions[n]),
                                   [k \in {"latest"} |-> Bool(FALSE)])]
                all == rows \o added
            IN [all EXCEPT ![Len(all)] = Put(@, "latest", Bool(TRUE))]
       ELSE IF Cardinality(DOMAIN row) > 1 THEN Append(rows, row)
       ELSE rows

\* lines 325-367: the output record of one row
ToRecord(record) ==
    LET systemitemtype == Get(record, "System_ItemType")
    IN IF systemitemtype = Str("ActivityHistoryItem")
       THEN [shape |-> "fileactivity",
             workid |-> Get(record, "WorkID"),
             systemitemtype |-> systemitemtype,
             record_last_modified |-> None,
             SDID |-> None,
             date_created |-> None,
             latest |-> Get(record, "latest"),
             checkpointindex |-> Get(record, "checkpointindex")]
       ELSE [shape |-> "fileinformation",
             workid |-> Get(record, "WorkID"),
             systemitemtype |-> systemitemtype,
             record_last_modified |-> Get(record, "LastModified"),
             SDID |-> Get(record, "SDID"),
             date_created |-> Get(record, "System_DateCreated"),
             latest |-> Get(record, "latest"),
             checkpointindex |-> Get(record, "checkpointindex")]

(***************************************************************************)
(* The state of one run over one Windows.db file.                          *)
(***************************************************************************)
VARIABLES
    pc,                 \* where the run is
    exc,                \* the exception that ended the run, "" when none
    db_wal,             \* whether a Windows.db-wal file exists (line 162)
    gthr_records,       \* DocumentID -> identity facts
    propstore_metadata, \* column id -> column name
    propstore_records,  \* work id -> list of versions
    work_id,            \* the work id of the row handled last, -1 before
    n_base,             \* rows of the base table handled so far
    n_checkpoints,      \* checkpoints of the WAL begun so far
    checkpoint_index,   \* checkpoint.index of the current checkpoint
    n_frames,           \* frames of the current checkpoint read so far
    rows,               \* get_rows_from_checkpoint's rows, then the joined rows
    next_row,           \* position of the loop over rows (line 223)
    max_id,             \* line 298
    iterator,           \* line 299
    records             \* the records searchindex has yielded

vars == << pc, exc, db_wal, gthr_records, propstore_metadata, propstore_records,
           work_id, n_base, n_checkpoints, checkpoint_index, n_frames, rows,
           next_row, max_id, iterator, records >>

Init ==
    /\ pc = "gthr"
    /\ exc = ""
    /\ db_wal \in BOOLEAN
    /\ gthr_records = EmptyDict
    /\ propstore_metadata = EmptyDict
    /\ propstore_records = EmptyDict
    /\ work_id = -1
    /\ n_base = 0
    /\ n_checkpoints = 0
    /\ checkpoint_index = -1
    /\ n_frames = 0
    /\ rows = <<>>
    /\ next_row = 0
    /\ max_id = -1
    /\ iterator = -1
    /\ records = <<>>

\* lines 177-186: the next row of the gatherer table, sorted by DocumentID
LoadGthrRow ==
    /\ pc = "gthr"
    /\ \E row \in GthrRows :
         /\ \A d \in DOMAIN gthr_records : d < row.DocumentID
         /\ LET record == GthrRecord(row)
            IN IF record = ValueError
               THEN /\ pc' = "error"
                    /\ exc' = "ValueError"
                    /\ UNCHANGED gthr_records
               ELSE /\ gthr_records' = Put(gthr_records, row.DocumentID, record)
                    /\ UNCHANGED << pc, exc >>
    /\ UNCHANGED << db_wal, propstore_metadata, propstore_records, work_id, n_base,
                    n_checkpoints, checkpoint_index, n_frames, rows, next_row,
                    max_id, iterator, records >>

\* lines 189-196: the gatherer table is exhausted; the metadata dict is built
LoadMetadata ==
    /\ pc = "gthr"
    /\ pc' = "propstore"
    /\ propstore_metadata' = BuildMetadata(MetadataTable, EmptyDict)
    /\ UNCHANGED << exc, db_wal, gthr_records, propstore_records, work_id, n_base,
                    n_checkpoints, checkpoint_index, n_frames, rows, next_row,
                    max_id, iterator, records >>

\* lines 198-216: the next row of the base table, sorted by WorkId
LoadPropstoreRow ==
    /\ pc = "propstore"
    /\ n_base < MaxBaseRows
    /\ \E row \in PropstoreRows :
         /\ work_id <= row.WorkId
         /\ work_id' = row.WorkId
         /\ propstore_records' = ApplyBaseRow(propstore_records, propstore_metadata, row)
    /\ n_base' = n_base + 1
    /\ UNCHANGED << pc, exc, db_wal, gthr_records, propstore_metadata,
                    n_checkpoints, checkpoint_index, n_frames, rows, next_row,
                    max_id, iterator, records >>

\* line 219: the base table is exhausted; the loop's own variables are dead
\* from here on and are cleared
PropstoreDone ==
    /\ pc = "propstore"
    /\ pc' = "wal"
    /\ work_id' = -1
    /\ n_base' = 0
    /\ UNCHANGED << exc, db_wal, gthr_records, propstore_metadata, propstore_records,
                    n_checkpoints, checkpoint_index, n_frames, rows,
                    next_row, max_id, iterator, records >>

\* BeginCheckpoint with a slip: the test of line 219 is missing, so checkpoints
\* are replayed although no WAL file exists
BeginCheckpoint_IgnoresMissingWal ==
    /\ pc = "wal"
    /\ n_checkpoints < MaxCheckpoints
    /\ \E index \in CheckpointIndices : checkpoint_index' = index
    /\ n_checkpoints' = n_checkpoints + 1
    /\ pc' = "frames"
    /\ n_frames' = 0
    /\ rows' = <<>>
    /\ next_row' = 0
    /\ UNCHANGED << exc, db_wal, gthr_records, propstore_metadata, propstore_records,
                    work_id, n_base, max_id, iterator, records >>

\* lines 220-222 and 415: the next checkpoint of the WAL
BeginCheckpoint ==
    /\ pc = "wal"
    /\ db_wal
    /\ n_checkpoints < MaxCheckpoints
    /\ \E index \in CheckpointIndices : checkpoint_index' = index
    /\ n_checkpoints' = n_checkpoints + 1
    /\ pc' = "frames"
    /\ n_frames' = 0
    /\ rows' = <<>>
    /\ next_row' = 0
    /\ UNCHANGED << exc, db_wal, gthr_records, propstore_metadata, propstore_records,
                    work_id, n_base, max_id, iterator, records >>

\* lines 416-425: the next frame of the checkpoint
ReadFrame ==
    /\ pc = "frames"
    /\ n_frames < MaxFrames
    /\ \E frame \in Frames :
         LET got == CollectFrame(rows, frame)
         IN \/ /\ got.how = "next"
               /\ rows' = got.rows
               /\ n_frames' = n_frames + 1
               /\ UNCHANGED << pc, exc, next_row >>
            \/ /\ got.how = "return"
               /\ rows' = got.rows
               /\ pc' = "apply"
               /\ next_row' = 1
               /\ UNCHANGED << exc, n_frames >>
            \/ /\ got.how = "raise"
               /\ pc' = "error"
               /\ exc' = "NoCellData"
               /\ UNCHANGED << rows, n_frames, next_row >>
    /\ UNCHANGED << db_wal, gthr_records, propstore_metadata, propstore_records,
                    work_id, n_base, n_checkpoints, checkpoint_index,
                    max_id, iterator, records >>

\* line 426: the frames are exhausted, rows is returned
FramesDone ==
    /\ pc = "frames"
    /\ pc' = "apply"
    /\ next_row' = 1
    /\ UNCHANGED << exc, db_wal, gthr_records, propstore_metadata, propstore_records,
                    work_id, n_base, n_checkpoints, checkpoint_index, n_frames, rows,
                    max_id, iterator, records >>

\* lines 223-250: the next change tuple of the checkpoint
ApplyRow ==
    /\ pc = "apply"
    /\ next_row <= Len(rows)
    /\ work_id' = rows[next_row][1]
    /\ propstore_records' =
           ApplyChange(propstore_records, propstore_metadata, checkpoint_index, rows[next_row])
    /\ next_row' = next_row + 1
    /\ UNCHANGED << pc, exc, db_wal, gthr_records, propstore_metadata, n_base,
                    n_checkpoints, checkpoint_index, n_frames, rows,
                    max_id, iterator, records >>

\* line 220: the rows of the checkpoint are exhausted; the variables of the
\* two loops are dead until the next checkpoint sets them and are cleared
EndCheckpoint ==
    /\ pc = "apply"
    /\ next_row > Len(rows)
    /\ pc' = "wal"
    /\ work_id' = -1
    /\ checkpoint_index' = -1
    /\ n_frames' = 0
    /\ rows' = <<>>
    /\ next_row' = 0
    /\ UNCHANGED << exc, db_wal, gthr_records, propstore_metadata, propstore_records,
                    n_base, n_checkpoints, max_id, iterator, records >>

\* lines 297-299: no WAL, or its checkpoints are exhausted; max() of an empty
\* dict raises ValueError
BeginEmit ==
    /\ pc = "wal"
    /\ IF DOMAIN gthr_records = {} \/ DOMAIN propstore_records = {}
       THEN /\ pc' = "error"
            /\ exc' = "ValueError"
            /\ UNCHANGED << rows, max_id, iterator >>
       ELSE /\ pc' = "emit"
            /\ rows' = <<>>
            /\ max_id' = IF MaxKey(gthr_records) > MaxKey(propstore_records)
                         THEN MaxKey(gthr_records) ELSE MaxKey(propstore_records)
            /\ iterator' = 0
            /\ UNCHANGED exc
    /\ UNCHANGED << db_wal, gthr_records, propstore_metadata, propstore_records,
                    work_id, n_base, n_checkpoints, checkpoint_index, n_frames,
                    next_row, records >>

\* the work ids range(max_id) visits
RangeHas(n, stop) == n < stop

\* lines 299-308: the next work id of range(max_id)
EmitStep ==
    /\ pc = "emit"
    /\ RangeHas(iterator, max_id)
    /\ rows' = EmitWorkId(rows, gthr_records, propstore_records, iterator)
    /\ iterator' = iterator + 1
    /\ UNCHANGED << pc, exc, db_wal, gthr_records, propstore_metadata, propstore_records,
                    work_id, n_base, n_checkpoints, checkpoint_index, n_frames,
                    next_row, max_id, records >>

\* lines 309 and 324-367: rows is returned and every row becomes a record
Yield ==
    /\ pc = "emit"
    /\ ~RangeHas(iterator, max_id)
    /\ records' = [n \in 1 .. Len(rows) |-> ToRecord(rows[n])]
    /\ pc' = "done"
    /\ UNCHANGED << exc, db_wal, gthr_records, propstore_metadata, propstore_records,
                    work_id, n_base, n_checkpoints, checkpoint_index, n_frames, rows,
                    next_row, max_id, iterator >>

Next ==
    \/ LoadGthrRow
    \/ LoadMetadata
    \/ LoadPropstoreRow
    \/ PropstoreDone
    \/ BeginCheckpoint
    \/ ReadFrame
    \/ FramesDone
    \/ ApplyRow
    \/ EndCheckpoint
    \/ BeginEmit
    \/ EmitStep
    \/ Yield

Spec == Init /\ [][Next]_vars

(***************************************************************************)
(* The join alone (lines 297-367), over more work ids than Spec has: it    *)
(* starts where the replay has ended, with dicts the load and the replay   *)
(* make.  range(max_id) leaves the largest work id out, so the join of     *)
(* several work ids needs more than two of them.                           *)
(***************************************************************************)
EmitWorkIds == 0 .. MaxEmitWorkId

\* gthr_records of a gatherer table with one row per work id of S
GthrDictOf(S) ==
    [d \in S |-> GthrRecord([DocumentID |-> d, FileName |-> Str("file"),
                              LastModified |-> Bytes(<<10>>), SDID |-> IntVal(1)])]

\* what happened to a work id: no row and no change; a base row; a base row
\* and a change of checkpoint 1; no base row and a change of checkpoint 2
Histories == {"none", "base", "changed", "created"}

VersionsByHistory(w, history) ==
    LET metadata == BuildMetadata(MetadataTable, EmptyDict)
        base == ApplyBaseRow(EmptyDict, metadata,
                             [WorkId |-> w, ColumnId |-> 1, Value |-> Bytes(<<10>>)])
    IN CASE history = "base" -> base[w]
         [] history = "changed" ->
                ApplyChange(base, metadata, 1, <<w, 1, Bytes(<<20>>)>>)[w]
         [] history = "created" ->
                ApplyChange(EmptyDict, metadata, 2, <<w, 2, Str("ActivityHistoryItem")>>)[w]

\* propstore_records after the replay, one history per work id
ReplayedDicts ==
    { [w \in { u \in EmitWorkIds : h[u] # "none" } |-> VersionsByHistory(w, h[w])] :
      h \in [EmitWorkIds -> Histories] }

EmitInit ==
    /\ pc = "wal"
    /\ exc = ""
    /\ db_wal = TRUE
    /\ gthr_records \in { GthrDictOf(S) : S \in SUBSET EmitWorkIds }
    /\ propstore_metadata = BuildMetadata(MetadataTable, EmptyDict)
    /\ propstore_records \in ReplayedDicts
    /\ work_id = -1
    /\ n_base = 0
    /\ n_checkpoints = MaxCheckpoints
    /\ checkpoint_index = -1
    /\ n_frames = 0
    /\ rows = <<>>
    /\ next_row = 0
    /\ max_id = -1
    /\ iterator = -1
    /\ records = <<>>

EmitNext ==
    \/ BeginEmit
    \/ EmitStep
    \/ Yield

EmitSpec == EmitInit /\ [][EmitNext]_vars

(***************************************************************************)
(* Helpers of the properties.                                              *)
(***************************************************************************)
IsPrefix(a, b) == Len(a) <= Len(b) /\ SubSeq(b, 1, Len(a)) = a

\* the positions of the joined rows of work id w
RowsOf(w) == { n \in 1 .. Len(rows) : Get(rows[n], "WorkID") = IntVal(w) }

\* the property versions of w, none when w has no entry
VersionsOf(w) ==
    IF w \in DOMAIN propstore_records THEN propstore_records[w] ELSE <<>>

\* the change tuple the loop at line 223 handles next / handled last
HasNextChange == pc = "apply" /\ next_row <= Len(rows)
NextChange == rows[next_row]
HasLastChange == pc = "apply" /\ next_row > 1
LastChange == rows[next_row - 1]

Resolvable(change) == change[2] \in DOMAIN propstore_metadata
FieldOf(change) == propstore_metadata[change[2]]
NewValueOf(change) == ConvertValue(FieldOf(change), change[3])

\* the latest version of the change's work id is older than the checkpoint
OlderLatest(change) ==
    /\ change[1] \in DOMAIN propstore_records
    /\ CheckpointIndexOf(Last(propstore_records[change[1]])) < checkpoint_index

\* the change would write the value its field already has
SameValue(change) ==
    Get(Last(propstore_records[change[1]]), FieldOf(change)) = NewValueOf(change)

(***************************************************************************)
(* C1: when the run is done, the joined rows of every work id have         *)
(* non-decreasing checkpointindex values in emission order, the last of    *)
(* them has latest = True and every earlier one has latest = False.        *)
(* Violated: a work id known to the gatherer only is emitted without a     *)
(* latest key (lines 307-308).                                             *)
(***************************************************************************)
C1_LastRowIsLatest ==
    pc = "done" =>
        \A w \in WorkIds :
            \A n \in RowsOf(w) :
                /\ Get(rows[n], "latest") =
                       Bool(\A m \in RowsOf(w) : m <= n)
                /\ \A m \in RowsOf(w) :
                       (m < n /\ Get(rows[m], "checkpointindex") # None
                              /\ Get(rows[n], "checkpointindex") # None)
                       => CheckpointIndexOf(rows[m]) <= CheckpointIndexOf(rows[n])

(***************************************************************************)
(* C2: no-op suppression.  A change of checkpoint c to a work id whose     *)
(* latest version has checkpointindex < c, with a converted value equal to *)
(* the value the field has in that version, leaves the number of versions  *)
(* of the work id (and every version) unchanged.                           *)
(***************************************************************************)
C2_NoOpSuppression ==
    [][ (/\ HasNextChange
         /\ Resolvable(NextChange)
         /\ OlderLatest(NextChange)
         /\ SameValue(NextChange)
         /\ next_row' = next_row + 1)
        => /\ NextChange[1] \in DOMAIN propstore_records'
           /\ Len(propstore_records'[NextChange[1]]) = Len(propstore_records[NextChange[1]])
           /\ propstore_records' = propstore_records ]_vars

\* a no-op change has been applied: the latest version is still older than
\* the checkpoint, which a change that was written would have prevented
C2_Witness ==
    /\ HasLastChange
    /\ Resolvable(LastChange)
    /\ OlderLatest(LastChange)
    /\ SameValue(LastChange)
    /\ NewValueOf(LastChange) # None

(***************************************************************************)
(* C3: two successive changes of one checkpoint of index c to two          *)
(* different resolvable fields of one work id, whose latest version has    *)
(* checkpointindex < c.                                                    *)
(***************************************************************************)
TwoFieldChanges ==
    /\ pc = "apply"
    /\ next_row + 1 <= Len(rows)
    /\ rows[next_row][1] = rows[next_row + 1][1]
    /\ Resolvable(rows[next_row])
    /\ Resolvable(rows[next_row + 1])
    /\ FieldOf(rows[next_row]) # FieldOf(rows[next_row + 1])
    /\ OlderLatest(rows[next_row])

\* propstore_records after the two changes
AfterTwoChanges ==
    ApplyChange(ApplyChange(propstore_records, propstore_metadata, checkpoint_index,
                            rows[next_row]),
                propstore_metadata, checkpoint_index, rows[next_row + 1])

\* the two changes made one new version, tagged c, that holds both values
OneNewVersionWithBoth ==
    LET w == rows[next_row][1]
        after == AfterTwoChanges[w]
    IN /\ Len(after) = Len(propstore_records[w]) + 1
       /\ CheckpointIndexOf(Last(after)) = checkpoint_index
       /\ Get(Last(after), FieldOf(rows[next_row])) = NewValueOf(rows[next_row])
       /\ Get(Last(after), FieldOf(rows[next_row + 1])) = NewValueOf(rows[next_row + 1])
       /\ SubSeq(after, 1, Len(after) - 1) = propstore_records[w]

\* C3 as stated: the two changes always make exactly one new version.
\* Violated when both changes write the value their field already has.
C3_ExactlyOneNewVersion ==
    TwoFieldChanges => OneNewVersionWithBoth

\* C3 as amended: two changes to different fields in one checkpoint make
\* exactly one new version, tagged c and holding both values, when at least
\* one of the two values differs from the value its field has; when both are
\* equal to the current values they make no version.  Never two versions.
C3_CoalescedUnlessBothNoOps ==
    TwoFieldChanges =>
        IF SameValue(rows[next_row]) /\ SameValue(rows[next_row + 1])
        THEN AfterTwoChanges = propstore_records
        ELSE OneNewVersionWithBoth

\* both changes of the first checkpoint have been applied to a work id of
\* the base snapshot and made its second version
C3_Witness ==
    /\ HasLastChange
    /\ next_row = 3
    /\ n_checkpoints = 1
    /\ rows[1][1] = rows[2][1]
    /\ Resolvable(rows[1]) /\ Resolvable(rows[2])
    /\ FieldOf(rows[1]) # FieldOf(rows[2])
    /\ LET versions == VersionsOf(rows[1][1])
       IN /\ Len(versions) = 2
          /\ CheckpointIndexOf(versions[1]) = 0
          /\ CheckpointIndexOf(versions[2]) = checkpoint_index
          /\ Get(versions[2], FieldOf(rows[1])) = NewValueOf(rows[1])
          /\ Get(versions[2], FieldOf(rows[2])) = NewValueOf(rows[2])
          /\ \A k \in {FieldOf(rows[1]), FieldOf(rows[2])} :
                 Get(versions[1], k) # Get(versions[2], k)

(***************************************************************************)
(* C4: a work id w whose base version has F = T1 and whose only other      *)
(* version comes from the single checkpoint, of index 1, that set F = T2,  *)
(* is emitted as exactly two rows: checkpointindex 0, latest False, F = T1 *)
(* and then checkpointindex 1, latest True, F = T2.                        *)
(* Violated when w is the largest work id: range(max_id) leaves it out.    *)
(***************************************************************************)
ScenarioField == "System_DateCreated"

BaseThenOneChange(w) ==
    /\ n_checkpoints = 1
    /\ Len(VersionsOf(w)) = 2
    /\ CheckpointIndexOf(VersionsOf(w)[1]) = 0
    /\ CheckpointIndexOf(VersionsOf(w)[2]) = 1
    /\ DOMAIN VersionsOf(w)[1] = {ScenarioField, "checkpointindex"}
    /\ DOMAIN VersionsOf(w)[2] = {ScenarioField, "checkpointindex"}
    /\ VersionsOf(w)[1][ScenarioField] = Datetime(1)
    /\ VersionsOf(w)[2][ScenarioField] = Datetime(2)

C4_TwoRowsForChangedEntity ==
    pc = "done" =>
        \A w \in WorkIds :
            BaseThenOneChange(w) =>
                \E m, n \in RowsOf(w) :
                    /\ RowsOf(w) = {m, n}
                    /\ m < n
                    /\ Get(rows[m], "checkpointindex") = IntVal(0)
                    /\ Get(rows[m], "latest") = Bool(FALSE)
                    /\ Get(rows[m], ScenarioField) = Datetime(1)
                    /\ Get(rows[n], "checkpointindex") = IntVal(1)
                    /\ Get(rows[n], "latest") = Bool(TRUE)
                    /\ Get(rows[n], ScenarioField) = Datetime(2)

(***************************************************************************)
(* C5: when the run is done, every work id from 0 to the largest one of    *)
(* the two dicts has been visited and every work id with versions has one  *)
(* joined row per version.                                                 *)
(* Violated: range(max_id) stops before max_id (line 299).                 *)
(***************************************************************************)
C5_OneRowPerVersion ==
    pc = "done" =>
        /\ iterator > max_id
        /\ \A w \in DOMAIN propstore_records :
               Cardinality(RowsOf(w)) = Len(propstore_records[w])

(***************************************************************************)
(* C6: when the run is done, a work id that has identity facts and no      *)
(* property version has exactly one joined row, with its identity fields,  *)
(* no property field, latest = True and checkpointindex = 0.               *)
(* Violated: the row has neither key (lines 307-308), and the largest work *)
(* id has no row.                                                          *)
(***************************************************************************)
C6_IdentityOnlyRow ==
    pc = "done" =>
        \A w \in DOMAIN gthr_records \ DOMAIN propstore_records :
            \E n \in RowsOf(w) :
                /\ RowsOf(w) = {n}
                /\ \A k \in DOMAIN gthr_records[w] : Get(rows[n], k) = gthr_records[w][k]
                /\ \A k \in PROPSTORE_INCLUDE_COLUMNS \ {"WorkID"} : Get(rows[n], k) = None
                /\ Get(rows[n], "latest") = Bool(TRUE)
                /\ Get(rows[n], "checkpointindex") = IntVal(0)

(***************************************************************************)
(* C7: the base snapshot is loaded and no checkpoint has been replayed.    *)
(***************************************************************************)
BaseLoaded == pc = "wal" /\ n_checkpoints = 0

OneBaseVersion(w) ==
    /\ w \in DOMAIN propstore_records
    /\ Len(propstore_records[w]) = 1
    /\ CheckpointIndexOf(propstore_records[w][1]) = 0

\* C7 as stated: every work id of the gatherer table or of the property
\* store has exactly one version, of checkpointindex 0.
\* Violated by a work id the gatherer table alone knows.
C7_EveryBaseEntityHasOneVersion ==
    BaseLoaded =>
        \A w \in DOMAIN gthr_records \cup DOMAIN propstore_records : OneBaseVersion(w)

\* C7 as amended: before any checkpoint is replayed, a work id has exactly
\* one version, of checkpointindex 0, as soon as the base table has a row for
\* it whose column the metadata resolves; rows of other columns and the rows
\* of the gatherer table create no version.
C7_OneVersionPerResolvedEntity ==
    /\ pc = "gthr" => propstore_records = EmptyDict
    /\ (pc = "propstore" \/ BaseLoaded) =>
           \A w \in DOMAIN propstore_records : OneBaseVersion(w)
    /\ pc = "propstore" =>
           \A row \in PropstoreRows :
               LET after == ApplyBaseRow(propstore_records, propstore_metadata, row)
               IN IF row.ColumnId \in DOMAIN propstore_metadata
                  THEN /\ DOMAIN after = DOMAIN propstore_records \cup {row.WorkId}
                       /\ Len(after[row.WorkId]) = 1
                       /\ CheckpointIndexOf(after[row.WorkId][1]) = 0
                       /\ after[row.WorkId][1][propstore_metadata[row.ColumnId]] =
                              ConvertValue(propstore_metadata[row.ColumnId], row.Value)
                  ELSE after = propstore_records

\* the base is loaded: one work id has a version with two fields, another
\* has identity facts and no version
C7_Witness ==
    /\ BaseLoaded
    /\ \E w \in DOMAIN propstore_records :
           /\ OneBaseVersion(w)
           /\ Cardinality(DOMAIN propstore_records[w][1]) = 3
    /\ DOMAIN gthr_records \ DOMAIN propstore_records # {}

(***************************************************************************)
(* C8: with no WAL file no checkpoint is ever replayed, and as long as no  *)
(* checkpoint has been replayed (no WAL file, or an empty checkpoint       *)
(* stream) every step after the base load leaves propstore_records as the  *)
(* base load made it: the same work ids, each with its one version of      *)
(* checkpointindex 0.                                                      *)
(***************************************************************************)
C8_EmptyReplayKeepsBase ==
    [][ /\ ~db_wal => (n_checkpoints' = 0 /\ pc' \notin {"frames", "apply"})
        /\ (n_checkpoints' = 0 /\ pc \in {"wal", "emit"})
           => /\ propstore_records' = propstore_records
              /\ \A w \in DOMAIN propstore_records' :
                     /\ Len(propstore_records'[w]) = 1
                     /\ CheckpointIndexOf(propstore_records'[w][1]) = 0 ]_vars

\* a run without WAL file is done and two work ids have their base version
C8_Witness ==
    /\ pc = "done"
    /\ ~db_wal
    /\ n_checkpoints = 0
    /\ Cardinality(DOMAIN propstore_records) = 2
    /\ \A w \in DOMAIN propstore_records : OneBaseVersion(w)

(***************************************************************************)
(* C9: a change whose column id is not in the metadata dict is dropped:    *)
(* the step raises nothing and leaves every version of every work id as it *)
(* was.                                                                    *)
(***************************************************************************)
C9_UnknownColumnDropped ==
    [][ (HasNextChange /\ ~Resolvable(NextChange) /\ next_row' = next_row + 1)
        => /\ propstore_records' = propstore_records
           /\ pc' = "apply"
           /\ exc' = "" ]_vars

\* a change to an unknown column of a work id with versions has been handled
C9_Witness ==
    /\ HasLastChange
    /\ ~Resolvable(LastChange)
    /\ LastChange[1] \in DOMAIN propstore_records
    /\ exc = ""

(***************************************************************************)
(* C10: while the frames of a checkpoint are read, a malformed frame or    *)
(* cell is skipped alone: the change tuples collected from the frames read *)
(* before stay in rows.                                                    *)
(* Violated: a cell larger than 255 bytes makes get_rows_from_checkpoint   *)
(* return [] (line 422), which drops the tuples of every other frame.      *)
(***************************************************************************)
C10_MalformedCellSkippedAlone ==
    [][ pc = "frames" => IsPrefix(rows, rows') ]_vars

(***************************************************************************)
(* C11: a time stamp of a datetime field that fails to parse, in the base  *)
(* snapshot or in a change of the WAL, is stored as None for that field    *)
(* only: the step that reads it raises nothing, the other fields of the    *)
(* version keep their values and the run goes on.                          *)
(* Violated: LastModified of the gatherer table is converted outside any   *)
(* try (line 181), so the ValueError ends the run.  The property store's   *)
(* base rows and the changes of the WAL behave as stated.                  *)
(***************************************************************************)
FailsToParse(column_name, raw) ==
    /\ column_name \in WIN_DATETIME_FIELDS
    /\ raw # None
    /\ wintimestamp(FromBytesLittle(raw.b)) = ValueError

\* the fields of a version other than column_name keep their values
OtherFieldsKept(before, after, column_name) ==
    \A k \in (DOMAIN before \cup DOMAIN after) \ {column_name, "checkpointindex"} :
        Get(after, k) = Get(before, k)

C11_BadTimestampBecomesAbsent ==
    [][ /\ pc \in {"gthr", "propstore", "apply"} => (pc' # "error" /\ exc' = "")
        /\ pc = "propstore" =>
               \A row \in PropstoreRows :
                   (/\ row.ColumnId \in DOMAIN propstore_metadata
                    /\ FailsToParse(propstore_metadata[row.ColumnId], row.Value))
                   => LET after == ApplyBaseRow(propstore_records, propstore_metadata, row)
                          w == row.WorkId
                      IN /\ Get(after[w][1], propstore_metadata[row.ColumnId]) = None
                         /\ w \in DOMAIN propstore_records =>
                                OtherFieldsKept(propstore_records[w][1], after[w][1],
                                                propstore_metadata[row.ColumnId])
        /\ (/\ HasNextChange
            /\ Resolvable(NextChange)
            /\ FailsToParse(FieldOf(NextChange), NextChange[3])
            /\ next_row' = next_row + 1)
           => LET w == NextChange[1]
              IN /\ Get(Last(propstore_records'[w]), FieldOf(NextChange)) = None
                 /\ w \in DOMAIN propstore_records =>
                        OtherFieldsKept(Last(propstore_records[w]),
                                        Last(propstore_records'[w]), FieldOf(NextChange))
      ]_vars

(***************************************************************************)
(* C12: no failure at the level of a value or of a frame (a cell that      *)
(* signals 'no data', a page of the wrong type, a value that fails to      *)
(* decode) leaves the replay of a checkpoint as an error: every step that  *)
(* reads a frame or applies a change leaves the run going, with no         *)
(* exception.                                                              *)
(* Violated: get_rows_from_checkpoint catches InvalidPageType only (line   *)
(* 424); the NoCellData of cell.values (line 423) ends the run.            *)
(***************************************************************************)
C12_ReplayNeverRaises ==
    [][ (pc = "frames" \/ pc = "apply")
        => /\ (pc' = "frames" \/ pc' = "apply" \/ pc' = "wal")
           /\ exc' = "" ]_vars

(***************************************************************************)
(* C13: clone-then-overwrite.  A change of checkpoint c to field F of a    *)
(* work id whose latest version is older than c, with a value that differs *)
(* from the one F has, appends one version: it equals the previous latest  *)
(* version on every field other than F, has F = the new value and          *)
(* checkpointindex = c, and every version that existed before, the cloned  *)
(* one included, stays as it was.  A change that is written in place       *)
(* changes field F of the last version only.                               *)
(***************************************************************************)
C13_CloneThenOverwrite ==
    [][ (/\ HasNextChange
         /\ Resolvable(NextChange)
         /\ NextChange[1] \in DOMAIN propstore_records
         /\ next_row' = next_row + 1)
        => LET w == NextChange[1]
               before == propstore_records[w]
               after == propstore_records'[w]
               F == FieldOf(NextChange)
           IN IF OlderLatest(NextChange)
              THEN IF SameValue(NextChange)
                   THEN after = before
                   ELSE /\ Len(after) = Len(before) + 1
                        /\ SubSeq(after, 1, Len(before)) = before
                        /\ DOMAIN Last(after) = DOMAIN Last(before) \cup {F}
                        /\ Last(after)[F] = NewValueOf(NextChange)
                        /\ CheckpointIndexOf(Last(after)) = checkpoint_index
                        /\ OtherFieldsKept(Last(before), Last(after), F)
              ELSE /\ Len(after) = Len(before)
                   /\ SubSeq(after, 1, Len(before) - 1) = SubSeq(before, 1, Len(before) - 1)
                   /\ DOMAIN Last(after) = DOMAIN Last(before) \cup {F}
                   /\ Last(after)[F] = NewValueOf(NextChange)
                   /\ CheckpointIndexOf(Last(after)) = CheckpointIndexOf(Last(before))
                   /\ OtherFieldsKept(Last(before), Last(after), F) ]_vars

\* the first checkpoint has changed field F of a base version twice: the first
\* change cloned the base version, the second overwrote F in the clone; the
\* base version still has its value of F and the clone has the base version's
\* value of another field
C13_Witness ==
    /\ HasLastChange
    /\ next_row = 3
    /\ n_checkpoints = 1
    /\ rows[1][1] = rows[2][1]
    /\ Resolvable(rows[1]) /\ Resolvable(rows[2])
    /\ FieldOf(rows[1]) = FieldOf(rows[2])
    /\ NewValueOf(rows[1]) # NewValueOf(rows[2])
    /\ LET versions == VersionsOf(rows[1][1])
           F == FieldOf(rows[1])
       IN /\ Len(versions) = 2
          /\ CheckpointIndexOf(versions[1]) = 0
          /\ CheckpointIndexOf(versions[2]) = checkpoint_index
          /\ Get(versions[1], F) \notin {None, NewValueOf(rows[1]), NewValueOf(rows[2])}
          /\ versions[2][F] = NewValueOf(rows[2])
          /\ \E k \in DOMAIN versions[1] \ {F, "checkpointindex"} :
                 /\ versions[1][k] # None
                 /\ Get(versions[2], k) = versions[1][k]

(***************************************************************************)
(* C14: the checkpointindex of a version is the index of the checkpoint    *)
(* that made it or wrote to it last: whenever a change of checkpoint c     *)
(* writes a value into a version, that version has checkpointindex = c     *)
(* afterwards, also when c is lower than the checkpointindex of the latest *)
(* version.                                                                *)
(* Violated: the else of line 249 also takes the changes of a checkpoint   *)
(* whose index is lower than the latest version's and writes them into     *)
(* that version, which keeps its higher checkpointindex.                   *)
(***************************************************************************)
C14_WrittenVersionTaggedWithCheckpoint ==
    [][ (/\ HasNextChange
         /\ Resolvable(NextChange)
         /\ ~(OlderLatest(NextChange) /\ SameValue(NextChange))
         /\ next_row' = next_row + 1)
        => LET after == propstore_records'[NextChange[1]]
           IN /\ Last(after)[FieldOf(NextChange)] = NewValueOf(NextChange)
              /\ CheckpointIndexOf(Last(after)) = checkpoint_index ]_vars

(***************************************************************************)
(* C15: last-writer-wins.  With checkpoints visited in increasing index    *)
(* order, every change of the stream takes effect in order: a change that  *)
(* was read from a frame stays among the tuples to replay, and replaying a *)
(* change (w, F, value) leaves the latest version of w with F = the        *)
(* converted value and every other field as it was (the value of the last  *)
(* earlier change to it, or its base value); the versions tagged with a    *)
(* lower index than the checkpoint, and the versions of other work ids,    *)
(* stay as they were, so a version tagged c keeps the values it had after  *)
(* the changes of the checkpoints up to c.                                 *)
(* Violated: the change tuples read before an oversized cell are dropped   *)
(* by the return [] of line 422, so the last change to (w, F) in the       *)
(* stream may never reach the latest version.                              *)
(***************************************************************************)
\* no version is tagged with a higher index than the current checkpoint, as
\* when the checkpoints come in increasing index order
InIndexOrder ==
    \A w \in DOMAIN propstore_records :
        \A n \in 1 .. Len(propstore_records[w]) :
            CheckpointIndexOf(propstore_records[w][n]) <= checkpoint_index

\* the effect of replaying the next change under last-writer-wins
LastWriterWinsStep ==
    LET w == NextChange[1]
        F == FieldOf(NextChange)
        after == propstore_records'[w]
    IN /\ Get(Last(after), F) = NewValueOf(NextChange)
       /\ IF w \in DOMAIN propstore_records
          THEN LET before == propstore_records[w]
               IN /\ OtherFieldsKept(Last(before), Last(after), F)
                  /\ \A n \in 1 .. Len(before) :
                         CheckpointIndexOf(before[n]) < checkpoint_index
                         => (n <= Len(after) /\ after[n] = before[n])
                  /\ after # before => CheckpointIndexOf(Last(after)) = checkpoint_index
          ELSE after = << NewVersion(F, NewValueOf(NextChange), checkpoint_index) >>
       /\ \A u \in DOMAIN propstore_records \ {w} :
              /\ u \in DOMAIN propstore_records'
              /\ propstore_records'[u] = propstore_records[u]

C15_LastWriterWins ==
    [][ /\ pc = "frames" => IsPrefix(rows, rows')
        /\ (/\ HasNextChange
            /\ Resolvable(NextChange)
            /\ InIndexOrder
            /\ next_row' = next_row + 1)
           => LastWriterWinsStep ]_vars

(***************************************************************************)
(* C16: in every reachable state no two consecutive versions of a work id  *)
(* have the same field-to-value mapping (checkpointindex left aside), also *)
(* when one checkpoint changes a field and then changes it back.           *)
(* Violated: the first change of the checkpoint clones the latest version, *)
(* the change back is written in place into the clone (line 250), which is *)
(* then equal to the version before it and is kept.                        *)
(***************************************************************************)
FieldsOf(version) == [k \in DOMAIN version \ {"checkpointindex"} |-> version[k]]

C16_NoEqualConsecutiveVersions ==
    \A w \in DOMAIN propstore_records :
        \A n \in 1 .. Len(propstore_records[w]) - 1 :
            FieldsOf(propstore_records[w][n]) # FieldsOf(propstore_records[w][n + 1])

(***************************************************************************)
(* C17: in every reachable state the checkpointindex values of the         *)
(* versions of one work id are strictly increasing, whatever the order of  *)
(* the checkpoint indices in the WAL; so a work id has at most one version *)
(* per checkpoint index and no two joined rows have the same WorkID and    *)
(* the same checkpointindex.                                               *)
(***************************************************************************)
C17_StrictlyIncreasingIndices ==
    /\ \A w \in DOMAIN propstore_records :
           \A n \in 1 .. Len(propstore_records[w]) - 1 :
               CheckpointIndexOf(propstore_records[w][n]) <
                   CheckpointIndexOf(propstore_records[w][n + 1])
    /\ pc \in {"emit", "done"} =>
           \A m, n \in 1 .. Len(rows) :
               (/\ Get(rows[m], "WorkID") = Get(rows[n], "WorkID")
                /\ Get(rows[m], "checkpointindex") = Get(rows[n], "checkpointindex"))
               => m = n

\* a checkpoint of a lower index than the latest version's has written to a
\* work id that has a base version and a version of an earlier checkpoint
C17_Witness ==
    /\ HasLastChange
    /\ Resolvable(LastChange)
    /\ n_checkpoints = 2
    /\ LET versions == VersionsOf(LastChange[1])
       IN /\ Len(versions) = 2
          /\ CheckpointIndexOf(versions[1]) = 0
          /\ CheckpointIndexOf(versions[2]) > checkpoint_index
          /\ Get(versions[2], FieldOf(LastChange)) = NewValueOf(LastChange)
          /\ Get(versions[1], FieldOf(LastChange)) # NewValueOf(LastChange)

(***************************************************************************)
(* C18: entity isolation.  No step of the replay changes gthr_records, and *)
(* applying a change for work id w leaves the versions of every other work *)
(* id as they were; two successive changes of a checkpoint for different   *)
(* work ids give each of them the versions it gets from its own change     *)
(* alone.                                                                  *)
(***************************************************************************)
\* the next two changes of the checkpoint are for different work ids
TwoEntityChanges ==
    /\ pc = "apply"
    /\ next_row + 1 <= Len(rows)
    /\ rows[next_row][1] # rows[next_row + 1][1]

VersionsIn(dict, w) == IF w \in DOMAIN dict THEN dict[w] ELSE <<>>

C18_EntityIsolation ==
    [][ /\ (pc = "wal" \/ pc = "frames" \/ pc = "apply") => gthr_records' = gthr_records
        /\ (HasNextChange /\ next_row' = next_row + 1)
           => \A u \in WorkIds \ {NextChange[1]} :
                  /\ u \in DOMAIN propstore_records' <=> u \in DOMAIN propstore_records
                  /\ VersionsIn(propstore_records', u) = VersionsIn(propstore_records, u)
        /\ TwoEntityChanges
           => LET first == rows[next_row]
                  second == rows[next_row + 1]
                  both == ApplyChange(ApplyChange(propstore_records, propstore_metadata,
                                                  checkpoint_index, first),
                                      propstore_metadata, checkpoint_index, second)
              IN /\ VersionsIn(both, first[1]) =
                        VersionsIn(ApplyChange(propstore_records, propstore_metadata,
                                               checkpoint_index, first), first[1])
                 /\ VersionsIn(both, second[1]) =
                        VersionsIn(ApplyChange(propstore_records, propstore_metadata,
                                               checkpoint_index, second), second[1]) ]_vars

\* the first checkpoint has changed two work ids of the base snapshot, one
\* after the other: each has its base version and a version of the checkpoint
C18_Witness ==
    /\ HasLastChange
    /\ next_row = 3
    /\ n_checkpoints = 1
    /\ rows[1][1] # rows[2][1]
    /\ Resolvable(rows[1]) /\ Resolvable(rows[2])
    /\ DOMAIN gthr_records # {}
    /\ \A n \in {1, 2} :
           LET versions == VersionsOf(rows[n][1])
           IN /\ Len(versions) = 2
              /\ CheckpointIndexOf(versions[1]) = 0
              /\ CheckpointIndexOf(versions[2]) = checkpoint_index
              /\ Get(versions[2], FieldOf(rows[n])) = NewValueOf(rows[n])

(***************************************************************************)
(* C19: the joined rows are emitted in ascending WorkID order, the rows of *)
(* one work id are contiguous and in ascending checkpointindex order, a    *)
(* row with latest = True is the last row of its work id, and emitting a   *)
(* work id leaves the rows emitted before, their latest flag included, as  *)
(* they were; searchindex yields one record per row, in the same order.    *)
(***************************************************************************)
WorkIDOf(row) == row["WorkID"].b[1]

EmittedInOrder(r) ==
    \A m, n \in 1 .. Len(r) :
        m < n =>
            /\ WorkIDOf(r[m]) <= WorkIDOf(r[n])
            /\ WorkIDOf(r[m]) = WorkIDOf(r[n]) =>
                   /\ Get(r[m], "checkpointindex") # None
                   /\ Get(r[n], "checkpointindex") # None
                   /\ CheckpointIndexOf(r[m]) < CheckpointIndexOf(r[n])
            /\ Get(r[m], "latest") = Bool(TRUE) => WorkIDOf(r[m]) < WorkIDOf(r[n])

C19_EmissionOrder ==
    [][ pc = "emit"
        => /\ IsPrefix(rows, rows')
           /\ EmittedInOrder(rows')
           /\ \A n \in Len(rows) + 1 .. Len(rows') : WorkIDOf(rows'[n]) = iterator
           /\ (Len(rows') > Len(rows) /\ iterator \in DOMAIN propstore_records)
              => Get(Last(rows'), "latest") = Bool(TRUE)
           /\ pc' = "done"
              => /\ Len(records') = Len(rows')
                 /\ \A n \in 1 .. Len(rows') :
                        /\ records'[n].workid = Get(rows'[n], "WorkID")
                        /\ records'[n].latest = Get(rows'[n], "latest")
                        /\ records'[n].checkpointindex = Get(rows'[n], "checkpointindex")
      ]_vars

\* the join is done: a work id with two versions, a work id that has
\* identity facts only and a work id with one version were emitted, in this
\* order or another
C19_Witness ==
    /\ pc = "done"
    /\ Len(records) = Len(rows)
    /\ \E u, v, w \in EmitWorkIds :
           /\ Cardinality(RowsOf(u)) = 2
           /\ \E m, n \in RowsOf(u) :
                  /\ m < n
                  /\ Get(rows[m], "latest") = Bool(FALSE)
                  /\ Get(rows[n], "latest") = Bool(TRUE)
           /\ Cardinality(RowsOf(v)) = 1
           /\ v \notin DOMAIN propstore_records
           /\ Cardinality(RowsOf(w)) = 1
           /\ w \in DOMAIN propstore_records
           /\ u < w

=============================================================================
